---- MODULE Spec2Model ----
(***************************************************************************)
(* Model of app::cmd::DropOnTimeline (src/src/app/cmd/drop_on_timeline.cpp) *)
(* the command that loads dropped files and splices their layers into the  *)
(* destination sprite's layer tree, with its undo and redo.                *)
(*                                                                         *)
(* The destination document is a layer tree (every group owns an ordered   *)
(* list of children, every layer has a parent back pointer), a frame count *)
(* and version counters.  The file loader is the environment: each call of *)
(* FileOp::createLoadDocumentOperation is an input drawn from              *)
(* LoaderResults.  onExecute is modelled one loop iteration per step (the  *)
(* loader call is the only point where the command waits), onUndo and      *)
(* onRedo are one step each.                                               *)
(***************************************************************************)
EXTENDS Integers, Sequences, FiniteSets, TLC

(***************************************************************************)
(* Bounds of the model.                                                    *)
(***************************************************************************)
\* longest list of dropped paths
MaxPaths == 3
\* most layers in one loaded source document
MaxSrcLayers == 2
\* most layers one execute copies into the destination
MaxNew == 3
\* most commands other than this one that run between its undo and redo
MaxOther == 1

Null == -1
\* the sprite's root group
Root == 0
\* layers of the destination before the drop
DestIds == {1, 2, 3}
FirstNewId == Cardinality(DestIds) + 1
MaxId == Cardinality(DestIds) + MaxNew + MaxOther
Ids == 0..MaxId

\* the frame offset (m_frame) a command is built with and the frame count of
\* the destination before the drop: a drop that makes the sprite grow and a
\* drop into a sprite that is long enough
FrameCases == {[frame |-> 3, total |-> 4], [frame |-> 0, total |-> 9]}
\* frame counts of loaded source documents
SrcFrames == {5}

Range(s) == {s[i] : i \in DOMAIN s}
Last(s) == s[Len(s)]

RECURSIVE SeqRemoveAll(_, _)
SeqRemoveAll(s, S) ==
  IF s = <<>> THEN <<>>
  ELSE IF Head(s) \in S THEN SeqRemoveAll(Tail(s), S)
       ELSE <<Head(s)>> \o SeqRemoveAll(Tail(s), S)

\* position of x in s, 0 when absent (std::find)
IndexOf(s, x) ==
  IF x \in Range(s) THEN CHOOSE i \in DOMAIN s : s[i] = x /\ \A j \in 1..(i-1) : s[j] # x
  ELSE 0

\* s with x inserted so that it becomes element number i
InsertAt(s, i, x) == SubSeq(s, 1, i-1) \o <<x>> \o SubSeq(s, i, Len(s))

VARIABLES
  layers,        \* LayerGroup::m_layers of every group: its ordered children
  parent,        \* Layer::m_parent of every layer (Null: attached nowhere)
  isGroup,       \* Layer::isGroup()
  cels,          \* frames at which an image layer holds a cel
  version,       \* version counter of every layer/group object
  spriteVersion, \* version counter of the destination sprite
  docVersion,    \* version counter of the destination document
  totalFrames,   \* Sprite::totalFrames() of the destination
  nextId,        \* identity given to the next layer object created
  m_paths, m_frame, m_layerIndex, m_insert,
  m_previousTotalFrames, m_droppedLayers,
  afterThis, beforeThis, group,   \* locals of onExecute, kept across iterations
  pc,            \* "ready", "loop", "executed", "undone", "fault"
  console,       \* paths whose error text was handed to Console::printf
  notified,      \* [op, layer]: what the last operation sent to the observers
  loaderCalls,   \* the loader calls so far: [path, kind, postErr, hasDoc, used]
  merged,        \* one record per source document merged by onExecute
  pre,           \* the destination and m_paths as onExecute found them
  post,          \* the destination as onExecute left it
  others,        \* number of other commands run so far
  detached       \* what the last onUndo removed, in order: [layer, group, at]

vars == <<layers, parent, isGroup, cels, version, spriteVersion, docVersion,
          totalFrames, nextId, m_paths, m_frame, m_layerIndex, m_insert,
          m_previousTotalFrames, m_droppedLayers, afterThis, beforeThis, group,
          pc, console, notified, loaderCalls, merged, pre, post, others,
          detached>>

docVars == <<layers, parent, isGroup, cels, version, spriteVersion, docVersion,
             totalFrames, nextId>>
paramVars == <<m_frame, m_layerIndex, m_insert>>
localVars == <<afterThis, beforeThis, group>>

(***************************************************************************)
(* The document model (doc::LayerGroup, doc::Layer, doc::Sprite).          *)
(* A tree t is a record [layers, parent].                                  *)
(***************************************************************************)
Tree(ls, par) == [layers |-> ls, parent |-> par]

\* LayerGroup::allLayers: children in order, a group's descendants before it
RECURSIVE allLayersFrom(_, _, _, _)
allLayersFrom(ls, ig, g, i) ==
  IF i > Len(ls[g]) THEN <<>>
  ELSE LET c == ls[g][i] IN
       (IF ig[c] THEN allLayersFrom(ls, ig, c, 1) ELSE <<>>)
         \o <<c>> \o allLayersFrom(ls, ig, g, i + 1)

\* Sprite::allLayers()
allLayers(ls, ig) == allLayersFrom(ls, ig, Root, 1)

\* LayerGroup::addLayer
addLayer(t, g, layer) ==
  Tree([t.layers EXCEPT ![g] = Append(@, layer)],
       [t.parent EXCEPT ![layer] = g])

\* LayerGroup::insertLayer(layer, after): right after `after'; at the end when
\* `after' is not a child; at the front when it is null
insertLayer(t, g, layer, after) ==
  LET p == IndexOf(t.layers[g], after)
      at == IF after = Null THEN 1
            ELSE IF p = 0 THEN Len(t.layers[g]) + 1 ELSE p + 1
  IN Tree([t.layers EXCEPT ![g] = InsertAt(@, at, layer)],
          [t.parent EXCEPT ![layer] = g])

\* LayerGroup::insertLayerBefore(layer, before): right before `before'; at the
\* end when it is null or not a child
insertLayerBefore(t, g, layer, before) ==
  LET p == IndexOf(t.layers[g], before)
      at == IF before = Null \/ p = 0 THEN Len(t.layers[g]) + 1 ELSE p
  IN Tree([t.layers EXCEPT ![g] = InsertAt(@, at, layer)],
          [t.parent EXCEPT ![layer] = g])

\* LayerGroup::removeLayer: by identity
removeLayer(t, g, layer) ==
  Tree([t.layers EXCEPT ![g] = SeqRemoveAll(@, {layer})],
       [t.parent EXCEPT ![layer] = Null])

\* Layer::getPrevious: the sibling before the layer, null for a first child
getPrevious(t, layer) ==
  IF t.parent[layer] = Null THEN Null
  ELSE LET s == t.layers[t.parent[layer]]
           p == IndexOf(s, layer)
       IN IF p > 1 THEN s[p - 1] ELSE Null

\* LayerGroup::lastLayer
lastLayer(ls, g) == IF ls[g] = <<>> THEN Null ELSE Last(ls[g])

\* Sprite::firstLayer: the first layer of the root, descending into groups
RECURSIVE firstLayerFrom(_, _, _)
firstLayerFrom(ls, ig, g) ==
  IF ls[g] = <<>> THEN Null
  ELSE LET c == Head(ls[g]) IN
       IF ig[c] /\ ls[c] # <<>> THEN firstLayerFrom(ls, ig, c) ELSE c

firstLayer(ls, ig) == firstLayerFrom(ls, ig, Root)

\* Layer::displaceFrames(fromThis, delta) on the cels of one layer
displaceFrames(fs, fromThis, delta) ==
  {f \in fs : f < fromThis} \cup {f + delta : f \in {x \in fs : x >= fromThis}}


(***************************************************************************)
(* The loader (FileOp::createLoadDocumentOperation, OpenFileJob, postLoad) *)
(* as the command sees it.                                                 *)
(***************************************************************************)
\* layer lists of source documents, one isGroup flag per layer: documents of
\* up to MaxSrcLayers image layers
SrcLayerLists ==
  {[i \in 1..n |-> FALSE] : n \in 0..MaxSrcLayers}

SrcDocs == [frames : SrcFrames, layers : SrcLayerLists]

NoDoc == [frames |-> 0, layers |-> <<>>]

\* kind "cancel":   createLoadDocumentOperation returned nullptr
\* kind "preerror": the FileOp has an error before anything is loaded
\* kind "loaded":   the load ran; it may leave an error text (postErr) and
\*                  may or may not deliver a document (hasDoc)
LoaderResults ==
  {[kind |-> "cancel", postErr |-> FALSE, hasDoc |-> FALSE, doc |-> NoDoc],
   [kind |-> "preerror", postErr |-> FALSE, hasDoc |-> FALSE, doc |-> NoDoc]}
  \cup [kind : {"loaded"}, postErr : {FALSE}, hasDoc : {FALSE}, doc : {NoDoc}]
  \cup [kind : {"loaded"}, postErr : BOOLEAN, hasDoc : {TRUE}, doc : SrcDocs]

\* FileOp::filenames(): the paths one load consumes: the path it was created
\* for and any of the other pending paths (an image sequence)
ConsumedSets(paths) ==
  {{Head(paths)} \cup S : S \in SUBSET Range(Tail(paths))}

(***************************************************************************)
(* Initial states: the command right after construction, for every         *)
(* destination of DestShapes and every parameter set.                      *)
(***************************************************************************)
NoLayers == [i \in Ids |-> <<>>]
NoParent == [i \in Ids |-> Null]

\* three flat layers; a flat list with an empty group in the middle; a group
\* holding one layer
DestShapes ==
  {[layers |-> [NoLayers EXCEPT ![Root] = <<1, 2, 3>>],
    parent |-> [NoParent EXCEPT ![1] = Root, ![2] = Root, ![3] = Root],
    groups |-> {Root}],
   [layers |-> [NoLayers EXCEPT ![Root] = <<1, 2, 3>>],
    parent |-> [NoParent EXCEPT ![1] = Root, ![2] = Root, ![3] = Root],
    groups |-> {Root, 2}],
   [layers |-> [NoLayers EXCEPT ![Root] = <<1, 2>>, ![2] = <<3>>],
    parent |-> [NoParent EXCEPT ![1] = Root, ![2] = Root, ![3] = 2],
    groups |-> {Root, 2}]}

Insertions == {"Before", "After"}

Snapshot ==
  [layers |-> layers, parent |-> parent, totalFrames |-> totalFrames,
   version |-> version, spriteVersion |-> spriteVersion,
   docVersion |-> docVersion, all |-> allLayers(layers, isGroup),
   paths |-> m_paths]

\* what loaderCalls keeps of one call
Call(path, res, used) ==
  [path |-> path, kind |-> res.kind, postErr |-> res.postErr,
   hasDoc |-> res.hasDoc, used |-> used]

\* lines 32-46: the command built with a layer index of `indices'.  ASSERT
\* (line 43) stops a debug build on a negative index and is compiled out of a
\* release build.
Constructed(indices) ==
  /\ \E d \in DestShapes :
       /\ layers = d.layers
       /\ parent = d.parent
       /\ isGroup = [i \in Ids |-> i \in d.groups]
       /\ \E fc \in FrameCases :
            /\ m_frame = fc.frame
            /\ totalFrames = fc.total
            /\ cels = [i \in Ids |->
                         IF i \in DestIds \ d.groups THEN 0..(fc.total - 1)
                         ELSE {}]
       /\ m_layerIndex \in indices
  /\ version = [i \in Ids |-> 0]
  /\ spriteVersion = 0
  /\ docVersion = 0
  /\ nextId = FirstNewId
  /\ \E n \in 0..MaxPaths : m_paths = [i \in 1..n |-> i]
  /\ m_insert \in Insertions
  /\ m_previousTotalFrames = 0
  /\ m_droppedLayers = <<>>
  /\ afterThis = Null /\ beforeThis = Null /\ group = Null
  /\ pc \in (IF m_layerIndex < 0 THEN {"ready", "fault"} ELSE {"ready"})
  /\ console = <<>>
  /\ notified = [op |-> "none", layer |-> Null]
  /\ loaderCalls = <<>>
  /\ merged = <<>>
  /\ pre = [layers |-> layers, parent |-> parent, totalFrames |-> totalFrames,
            version |-> version, spriteVersion |-> 0, docVersion |-> 0,
            all |-> allLayers(layers, isGroup), paths |-> m_paths]
  /\ post = pre
  /\ others = 0
  /\ detached = <<>>

\* the caller passes the index of a layer of the destination
Init == Constructed(0..(Cardinality(DestIds) - 1))

\* the caller passes an index that addresses no layer: a negative one, or the
\* length of the flattened layer list (with a list of paths shorter than the
\* longest, as every load reads the index again)
InitBadIndex ==
  /\ Constructed({-1, Cardinality(DestIds)})
  /\ Len(m_paths) < MaxPaths

(***************************************************************************)
(* DropOnTimeline::setupInsertionLayers                                    *)
(***************************************************************************)
\* a variant without the case of a group as reference layer
setupInsertionLayersPlain(t, ig, ref) ==
  LET after0 == IF m_insert = "After" THEN ref ELSE Null
      before0 == IF m_insert = "Before" THEN ref ELSE Null
  IN [before |-> before0, after |-> after0,
      group |-> IF after0 # Null THEN t.parent[after0] ELSE t.parent[before0]]

\* allLayers[m_layerIndex]: the layer at the index, and for an index outside
\* the list what an out-of-bounds read can bring: a crash (Null here) or
\* the address of some layer
refLayers(ls, ig) ==
  LET all == allLayers(ls, ig) IN
  IF m_layerIndex \in 0..(Len(all) - 1) THEN {all[m_layerIndex + 1]}
  ELSE Range(all) \cup {Null}

\* the anchor resolved from the reference layer `ref': [before, after, group]
setupInsertionLayers(t, ig, ref) ==
  LET after0 == IF m_insert = "After" THEN ref ELSE Null
      before0 == IF m_insert = "Before" THEN ref ELSE Null
  IN IF before0 # Null /\ ig[before0]
     THEN IF Len(t.layers[before0]) = 0
          THEN [before |-> Null, after |-> Null, group |-> before0]
          ELSE LET after1 == lastLayer(t.layers, before0) IN
               [before |-> Null, after |-> after1, group |-> t.parent[after1]]
     ELSE [before |-> before0, after |-> after0,
           group |-> IF after0 # Null THEN t.parent[after0]
                     ELSE t.parent[before0]]


(***************************************************************************)
(* DropOnTimeline::onExecute                                               *)
(***************************************************************************)
\* line 92: m_paths.erase(std::find(...)) takes out the first occurrence
eraseFound(paths, x) ==
  LET p == IndexOf(paths, x) IN
  SubSeq(paths, 1, p - 1) \o SubSeq(paths, p + 1, Len(paths))

\* a variant that drops only the path the file operation was created for
pathsAfterLoadFrontOnly(paths, used) == Tail(paths)

\* lines 91-92: every path the file operation consumes leaves m_paths
RECURSIVE pathsAfterLoad(_, _)
pathsAfterLoad(paths, used) ==
  IF used = {} THEN paths
  ELSE LET x == CHOOSE y \in used : TRUE IN
       pathsAfterLoad(eraseFound(paths, x), used \ {x})

\* lines 98-101: the load is run only for a file operation without an error
runsLoad(res) == res.kind = "loaded"

\* a variant that shows only the errors left by the load itself
printsErrorPostLoad(res) == res.kind = "loaded" /\ res.postErr

\* lines 98-100 and 109-110: the error text goes to the console
printsError(res) == res.kind = "preerror" \/ (res.kind = "loaded" /\ res.postErr)

\* a variant that sets the frame count without comparing
fitTotalFramesAlways(frame, srcFrames, destFrames) == frame + srcFrames

\* lines 130-132: make room for the source frames
fitTotalFrames(frame, srcFrames, destFrames) ==
  IF frame + srcFrames > destFrames THEN frame + srcFrames ELSE destFrames

\* lines 142-144: the copy holds the source layer's cels (one per source
\* frame of an image layer), displaced by m_frame
copiedCels(srcFrames, grp, frame) ==
  IF grp THEN {} ELSE displaceFrames(0..(srcFrames - 1), 0, frame)

\* a variant that leaves the anchor on the layer it was resolved to
dropLayerNoAdvance(st, layerCopy) ==
  IF st.afterThis # Null
  THEN [st EXCEPT !.t = insertLayer(st.t, st.group, layerCopy, st.afterThis)]
  ELSE IF st.beforeThis # Null
  THEN [st EXCEPT !.t = insertLayerBefore(st.t, st.group, layerCopy, st.beforeThis)]
  ELSE [st EXCEPT !.t = addLayer(st.t, st.group, layerCopy),
                  !.afterThis = layerCopy]

\* a variant that forgets the inserted copy after an insertion before the
\* anchor
dropLayerBeforeOnly(st, layerCopy) ==
  IF st.afterThis # Null
  THEN [st EXCEPT !.t = insertLayer(st.t, st.group, layerCopy, st.afterThis),
                  !.afterThis = layerCopy]
  ELSE IF st.beforeThis # Null
  THEN [st EXCEPT !.t = insertLayerBefore(st.t, st.group, layerCopy, st.beforeThis),
                  !.beforeThis = Null]
  ELSE [st EXCEPT !.t = addLayer(st.t, st.group, layerCopy),
                  !.afterThis = layerCopy]

\* lines 146-158: insert one copy at the anchor and move the anchor to it;
\* st is [t, afterThis, beforeThis, group]
dropLayer(st, layerCopy) ==
  IF st.afterThis # Null
  THEN [st EXCEPT !.t = insertLayer(st.t, st.group, layerCopy, st.afterThis),
                  !.afterThis = layerCopy]
  ELSE IF st.beforeThis # Null
  THEN [st EXCEPT !.t = insertLayerBefore(st.t, st.group, layerCopy, st.beforeThis),
                  !.beforeThis = Null,
                  !.afterThis = layerCopy]
  ELSE [st EXCEPT !.t = addLayer(st.t, st.group, layerCopy),
                  !.afterThis = layerCopy]

\* lines 138-161: the copies of the source layers, in source order
RECURSIVE dropLayers(_, _, _)
dropLayers(st, copies, i) ==
  IF i > Len(copies) THEN st
  ELSE dropLayers(dropLayer(st, copies[i]), copies, i + 1)

\* line 169 / line 219: the layer handed to notifyDocObservers
focusLayer(after, before) == IF after # Null THEN after ELSE before

\* lines 222-234: observers are told only about a non-null layer; the value
\* is the layer of the event sent, Null when none is sent
notifyDocObservers(layer) == layer

\* line 75
onExecuteBegin ==
  /\ pc = "ready"
  /\ m_previousTotalFrames' = totalFrames
  /\ afterThis' = Null /\ beforeThis' = Null /\ group' = Null
  /\ pre' = Snapshot
  /\ pc' = "loop"
  /\ UNCHANGED <<detached, docVars, m_paths, paramVars, m_droppedLayers, console,
                 notified, loaderCalls, merged, post, others>>

\* lines 86-96 when createLoadDocumentOperation returns nullptr: line 91
\* dereferences the null pointer before line 95 tests it, so the build may
\* crash there or may reach the return of line 96
onExecuteCancelled ==
  /\ pc = "loop" /\ m_paths # <<>>
  /\ loaderCalls' = Append(loaderCalls,
        [path |-> Head(m_paths), kind |-> "cancel", postErr |-> FALSE,
         hasDoc |-> FALSE, used |-> {}])
  /\ pc' \in {"fault", "executed"}
  /\ post' = Snapshot
  /\ notified' = [op |-> "execute", layer |-> Null]
  /\ UNCHANGED <<detached, docVars, m_paths, paramVars, m_previousTotalFrames,
                 m_droppedLayers, localVars, console, merged, pre, others>>

\* lines 86-113 for a load that brings no document: an error before the load,
\* or a load that ends without a document
onExecuteNoDocument ==
  /\ pc = "loop" /\ m_paths # <<>>
  /\ \E res \in LoaderResults, used \in ConsumedSets(m_paths) :
       /\ res.kind # "cancel"
       /\ ~(runsLoad(res) /\ res.hasDoc)
       /\ m_paths' = pathsAfterLoad(m_paths, used)
       /\ console' = IF printsError(res) THEN Append(console, Head(m_paths))
                     ELSE console
       /\ loaderCalls' = Append(loaderCalls, Call(Head(m_paths), res, used))
  /\ UNCHANGED <<detached, docVars, paramVars, m_previousTotalFrames, m_droppedLayers,
                 localVars, pc, notified, merged, pre, post, others>>

\* lines 86-163 for a load that brings a source document
onExecuteMerge ==
  /\ pc = "loop" /\ m_paths # <<>>
  /\ \E res \in LoaderResults, used \in ConsumedSets(m_paths) :
       /\ runsLoad(res) /\ res.hasDoc
       /\ Len(m_droppedLayers) + Len(res.doc.layers) <= MaxNew
       /\ m_paths' = pathsAfterLoad(m_paths, used)
       /\ console' = IF printsError(res) THEN Append(console, Head(m_paths))
                     ELSE console
       /\ loaderCalls' = Append(loaderCalls, Call(Head(m_paths), res, used))
       /\ totalFrames' = fitTotalFrames(m_frame, res.doc.frames, totalFrames)
       /\ \E ref \in refLayers(layers, isGroup) :
            IF ref = Null
            THEN /\ pc' = "fault"
                 /\ UNCHANGED <<layers, parent, isGroup, cels, version, nextId,
                                m_droppedLayers, localVars, merged>>
            ELSE LET n == Len(res.doc.layers)
                     copies == [i \in 1..n |-> nextId + i - 1]
                     ig == [l \in Ids |->
                              IF l \in Range(copies)
                              THEN res.doc.layers[l - nextId + 1]
                              ELSE isGroup[l]]
                     a == setupInsertionLayers(Tree(layers, parent), isGroup, ref)
                     st == dropLayers([t |-> Tree(layers, parent),
                                       afterThis |-> a.after,
                                       beforeThis |-> a.before,
                                       group |-> a.group], copies, 1)
                 IN /\ layers' = st.t.layers
                    /\ parent' = st.t.parent
                    /\ isGroup' = ig
                    /\ cels' = [l \in Ids |->
                                  IF l \in Range(copies)
                                  THEN copiedCels(res.doc.frames, ig[l], m_frame)
                                  ELSE cels[l]]
                    /\ nextId' = nextId + n
                    /\ version' = [version EXCEPT ![a.group] = @ + 1]
                    /\ m_droppedLayers' = m_droppedLayers \o copies
                    /\ afterThis' = st.afterThis
                    /\ beforeThis' = st.beforeThis
                    /\ group' = st.group
                    /\ merged' = Append(merged,
                          [path |-> Head(m_paths), postErr |-> res.postErr,
                           frames |-> res.doc.frames, copies |-> copies,
                           framesBefore |-> totalFrames, ref |-> ref,
                           anchor |-> a, layersBefore |-> layers,
                           layersAfter |-> st.t.layers])
                    /\ pc' = pc
  /\ UNCHANGED <<detached, spriteVersion, docVersion, paramVars, m_previousTotalFrames,
                 notified, pre, post, others>>

\* lines 166-169: the loop ended with m_paths empty
onExecuteEnd ==
  /\ pc = "loop" /\ m_paths = <<>>
  /\ spriteVersion' = spriteVersion + 1
  /\ docVersion' = docVersion + 1
  /\ notified' = [op |-> "execute",
                  layer |-> notifyDocObservers(focusLayer(afterThis, beforeThis))]
  /\ post' = [Snapshot EXCEPT !.spriteVersion = spriteVersion + 1,
                              !.docVersion = docVersion + 1]
  /\ pc' = "executed"
  /\ UNCHANGED <<detached, layers, parent, isGroup, cels, version, totalFrames, nextId,
                 m_paths, paramVars, m_previousTotalFrames, m_droppedLayers,
                 localVars, console, loaderCalls, merged, pre, others>>


(***************************************************************************)
(* DropOnTimeline::onUndo                                                  *)
(***************************************************************************)
\* line 179 as onUndo finds the layer: the group it is removed from and its
\* position there
removal(t, layer) ==
  [layer |-> layer, group |-> t.parent[layer],
   at |-> IndexOf(t.layers[t.parent[layer]], layer)]

\* a variant that removes the layer from the sprite's root instead of from
\* its parent
undoLayerFromRoot(st, layer) ==
  IF st.t.parent[layer] = Null THEN [st EXCEPT !.fault = TRUE]
  ELSE [st EXCEPT !.layerBefore = getPrevious(st.t, layer),
                  !.t = removeLayer(st.t, Root, layer),
                  !.order = Append(@, removal(st.t, layer))]

\* lines 177-180, one layer: remember its previous sibling, then remove it
\* from its parent; st is [t, layerBefore, fault, order].  A layer without a parent
\* makes line 179 call through a null pointer.
undoLayer(st, layer) ==
  IF st.t.parent[layer] = Null THEN [st EXCEPT !.fault = TRUE]
  ELSE [st EXCEPT !.layerBefore = getPrevious(st.t, layer),
                  !.t = removeLayer(st.t, st.t.parent[layer], layer),
                  !.order = Append(@, removal(st.t, layer))]

\* a variant that leaves the first recorded layer where it is
RECURSIVE undoLayersSkipFirst(_, _, _)
undoLayersSkipFirst(st, dropped, i) ==
  IF i > Len(dropped) THEN st
  ELSE undoLayersSkipFirst(IF i = 1 THEN st ELSE undoLayer(st, dropped[i]),
                           dropped, i + 1)

\* a variant that goes through the recorded layers from the last to the first
RECURSIVE undoLayersReverse(_, _, _)
undoLayersReverse(st, dropped, i) ==
  IF i > Len(dropped) THEN st
  ELSE undoLayersReverse(undoLayer(st, dropped[Len(dropped) - i + 1]),
                         dropped, i + 1)

\* lines 176-180: the recorded layers in the order of m_droppedLayers
RECURSIVE undoLayers(_, _, _)
undoLayers(st, dropped, i) ==
  IF i > Len(dropped) THEN st
  ELSE undoLayers(undoLayer(st, dropped[i]), dropped, i + 1)

\* lines 181-182 and 194-195: the frame count the sprite gets, and the one
\* the command keeps for the next undo or redo
restoredFrames(current, previous) == previous
\* a variant that does not save the current frame count
keptFramesStale(current, previous) == previous
keptFrames(current, previous) == current

\* lines 184-185
undoFocus(layerBefore, first) == IF layerBefore = Null THEN first ELSE layerBefore

onUndo ==
  /\ pc = "executed"
  /\ LET st == undoLayers([t |-> Tree(layers, parent), layerBefore |-> Null,
                           fault |-> FALSE, order |-> <<>>], m_droppedLayers, 1)
     IN IF st.fault
        THEN /\ pc' = "fault"
             /\ UNCHANGED <<layers, parent, totalFrames, m_previousTotalFrames,
                            notified, detached>>
        ELSE /\ layers' = st.t.layers
             /\ detached' = st.order
             /\ parent' = st.t.parent
             /\ totalFrames' = restoredFrames(totalFrames, m_previousTotalFrames)
             /\ m_previousTotalFrames' = keptFrames(totalFrames, m_previousTotalFrames)
             /\ notified' = [op |-> "undo",
                             layer |-> notifyDocObservers(
                                undoFocus(st.layerBefore,
                                          firstLayer(st.t.layers, isGroup)))]
             /\ pc' = "undone"
  /\ UNCHANGED <<isGroup, cels, version, spriteVersion, docVersion, nextId,
                 m_paths, paramVars, m_droppedLayers, localVars, console,
                 loaderCalls, merged, pre, post, others>>

(***************************************************************************)
(* DropOnTimeline::onRedo                                                  *)
(***************************************************************************)
\* a variant that leaves the anchor on the layer it was resolved to
redoLayerNoAdvance(st, layer) ==
  IF st.afterThis # Null
  THEN [st EXCEPT !.t = insertLayer(st.t, st.group, layer, st.afterThis)]
  ELSE IF st.beforeThis # Null
  THEN [st EXCEPT !.t = insertLayerBefore(st.t, st.group, layer, st.beforeThis),
                  !.beforeThis = Null,
                  !.afterThis = layer]
  ELSE [st EXCEPT !.t = addLayer(st.t, st.group, layer),
                  !.afterThis = layer]

\* a variant that attaches the layer a second time
redoLayerTwice(st, layer) ==
  LET t1 == IF st.afterThis # Null
            THEN insertLayer(st.t, st.group, layer, st.afterThis)
            ELSE IF st.beforeThis # Null
            THEN insertLayerBefore(st.t, st.group, layer, st.beforeThis)
            ELSE addLayer(st.t, st.group, layer)
  IN [st EXCEPT !.t = addLayer(t1, st.group, layer),
                !.beforeThis = Null,
                !.afterThis = layer]

\* lines 205-217: attach one recorded layer at the anchor and move the anchor
redoLayer(st, layer) ==
  IF st.afterThis # Null
  THEN [st EXCEPT !.t = insertLayer(st.t, st.group, layer, st.afterThis),
                  !.afterThis = layer]
  ELSE IF st.beforeThis # Null
  THEN [st EXCEPT !.t = insertLayerBefore(st.t, st.group, layer, st.beforeThis),
                  !.beforeThis = Null,
                  !.afterThis = layer]
  ELSE [st EXCEPT !.t = addLayer(st.t, st.group, layer),
                  !.afterThis = layer]

\* lines 202-218
RECURSIVE redoLayers(_, _, _)
redoLayers(st, dropped, i) ==
  IF i > Len(dropped) THEN st
  ELSE redoLayers(redoLayer(st, dropped[i]), dropped, i + 1)

onRedo ==
  /\ pc = "undone"
  /\ totalFrames' = restoredFrames(totalFrames, m_previousTotalFrames)
  /\ m_previousTotalFrames' = keptFrames(totalFrames, m_previousTotalFrames)
  /\ \E ref \in refLayers(layers, isGroup) :
       IF ref = Null
       THEN /\ pc' = "fault"
            /\ UNCHANGED <<layers, parent, notified>>
       ELSE LET a == setupInsertionLayers(Tree(layers, parent), isGroup, ref)
                st == redoLayers([t |-> Tree(layers, parent),
                                  afterThis |-> a.after,
                                  beforeThis |-> a.before,
                                  group |-> a.group], m_droppedLayers, 1)
            IN /\ layers' = st.t.layers
               /\ parent' = st.t.parent
               /\ notified' = [op |-> "redo",
                               layer |-> notifyDocObservers(
                                  focusLayer(st.afterThis, st.beforeThis))]
               /\ pc' = "executed"
  /\ UNCHANGED <<detached, isGroup, cels, version, spriteVersion, docVersion, nextId,
                 m_paths, paramVars, m_droppedLayers, localVars, console,
                 loaderCalls, merged, pre, post, others>>

(***************************************************************************)
(* Other commands of the history, run between this command's undo and its  *)
(* redo on layers this command does not hold.                              *)
(***************************************************************************)
\* cmd::AddLayer: a new image layer as first child of the root
otherAddLayer ==
  /\ pc = "undone" /\ others < MaxOther /\ nextId <= MaxId
  /\ layers' = [layers EXCEPT ![Root] = <<nextId>> \o @]
  /\ parent' = [parent EXCEPT ![nextId] = Root]
  /\ cels' = [cels EXCEPT ![nextId] = 0..(totalFrames - 1)]
  /\ nextId' = nextId + 1
  /\ version' = [version EXCEPT ![Root] = @ + 1]
  /\ spriteVersion' = spriteVersion + 1
  /\ others' = others + 1
  /\ UNCHANGED <<detached, isGroup, docVersion, totalFrames, m_paths, paramVars,
                 m_previousTotalFrames, m_droppedLayers, localVars, pc, console,
                 notified, loaderCalls, merged, pre, post>>

\* a is l or a group above l
RECURSIVE holdsLayer(_, _, _)
holdsLayer(par, a, l) ==
  IF l = a THEN TRUE
  ELSE IF par[l] = Null THEN FALSE
  ELSE holdsLayer(par, a, par[l])

\* cmd::RemoveLayer: one of the layers the sprite had before the drop, other
\* than the layer the drop was anchored to and the groups that hold it, as
\* long as the root keeps a child
otherRemoveLayer ==
  /\ pc = "undone" /\ others < MaxOther
  /\ \E l \in DestIds :
       /\ parent[l] # Null
       /\ m_layerIndex + 1 \in DOMAIN pre.all
            => ~holdsLayer(parent, l, pre.all[m_layerIndex + 1])
       /\ LET t == removeLayer(Tree(layers, parent), parent[l], l) IN
          /\ t.layers[Root] # <<>>
          /\ layers' = t.layers
          /\ parent' = t.parent
       /\ version' = [version EXCEPT ![parent[l]] = @ + 1]
  /\ spriteVersion' = spriteVersion + 1
  /\ others' = others + 1
  /\ UNCHANGED <<detached, isGroup, cels, docVersion, totalFrames, nextId, m_paths,
                 paramVars, m_previousTotalFrames, m_droppedLayers, localVars,
                 pc, console, notified, loaderCalls, merged, pre, post>>

Next ==
  \/ onExecuteBegin
  \/ onExecuteCancelled
  \/ onExecuteNoDocument
  \/ onExecuteMerge
  \/ onExecuteEnd
  \/ onUndo
  \/ onRedo
  \/ otherAddLayer
  \/ otherRemoveLayer

Spec == Init /\ [][Next]_vars

\* the command built with an index that addresses no layer
SpecBadIndex == InitBadIndex /\ [][Next]_vars


(***************************************************************************)
(* Properties.                                                             *)
(***************************************************************************)
Max(a, b) == IF a >= b THEN a ELSE b
Min(S) == CHOOSE x \in S : \A y \in S : x <= y
Restrict(s, S) == SelectSeq(s, LAMBDA x : x \in S)
Attached == {l \in Ids : parent[l] # Null}
\* the last operation of the command was its redo
Redone == notified.op = "redo"
\* the layer the index pointed to when onExecute started
RefAtExecute == pre.all[m_layerIndex + 1]

\* C1: after execute and then undo, with nothing run in between, the
\* destination has the layer tree (children lists and parents) and the frame
\* count it had before execute, whatever the loader delivered.
C1_UndoRestoresSprite ==
  (pc = "undone" /\ others = 0)
    => /\ layers = pre.layers
       /\ parent = pre.parent
       /\ totalFrames = pre.totalFrames

\* an undo of an execute that merged two sources, three layers and grew the
\* sprite
C1_Witness ==
  /\ pc = "undone" /\ others = 0
  /\ Len(merged) = 2 /\ Len(m_droppedLayers) = 3
  /\ post.totalFrames > pre.totalFrames
  /\ post.layers # pre.layers

\* C3: the frame count is the pre-execute count after every undo and the
\* post-execute count after every redo.
C3_FramePingPong ==
  /\ pc = "undone" => totalFrames = pre.totalFrames
  /\ pc = "executed" => totalFrames = post.totalFrames

\* the redo of a command that took the sprite from 4 to 8 frames
C3_Witness ==
  /\ pc = "executed" /\ Redone
  /\ pre.totalFrames = 4 /\ post.totalFrames = 8
  /\ totalFrames = 8 /\ m_previousTotalFrames = 4

\* C4: every step of execute that merges a source document takes the frame
\* count to max(count before, m_frame + source frames), no step of execute
\* lowers it, and the cels of every copied image layer start at m_frame.
C4_FramesGrowToFit ==
  [][/\ pc = "loop" => totalFrames' >= totalFrames
     /\ Len(merged') = Len(merged) + 1 =>
          LET m == Last(merged') IN
          /\ totalFrames' = Max(totalFrames, m_frame + m.frames)
          /\ \A l \in Range(m.copies) :
               /\ cels'[l] # {}
               /\ Min(cels'[l]) = m_frame
               /\ \A f \in cels'[l] : f < totalFrames']_vars

\* source of 5 frames dropped at frame 3 of a sprite of 4 frames
C4_Witness ==
  /\ pc = "loop" /\ Len(merged) = 1
  /\ merged[1].frames = 5 /\ m_frame = 3 /\ merged[1].framesBefore = 4
  /\ totalFrames = 8
  /\ Len(merged[1].copies) = 2
  /\ \A l \in Range(merged[1].copies) : cels[l] = 3..7

\* C5: mode After at a non-group layer R, one source merged: the copies are
\* children of R's parent, right after R in source order and before what
\* followed R; every other children list is as before.
C5_InsertAfterLayer ==
  (/\ pc \in {"loop", "executed"} /\ ~Redone
   /\ Len(merged) = 1 /\ m_insert = "After" /\ ~isGroup[RefAtExecute])
    => LET R == RefAtExecute
           g == pre.parent[R]
           p == IndexOf(pre.layers[g], R)
           c == merged[1].copies
       IN /\ layers[g] = SubSeq(pre.layers[g], 1, p) \o c
                           \o SubSeq(pre.layers[g], p + 1, Len(pre.layers[g]))
          /\ \A l \in Range(c) : parent[l] = g
          /\ \A h \in Ids \ {g} : layers[h] = pre.layers[h]

\* three flat layers, After at index 1, a source of two layers
C5_Witness ==
  /\ pc = "executed" /\ ~Redone
  /\ Len(merged) = 1 /\ m_insert = "After" /\ m_layerIndex = 1
  /\ pre.layers[Root] = <<1, 2, 3>> /\ ~isGroup[2]
  /\ Len(merged[1].copies) = 2
  /\ layers[Root] = <<1, 2>> \o merged[1].copies \o <<3>>


\* C6: mode Before with the index at a group G, for every source merged:
\* the anchor resolves to group G with no "before" layer and with G's last
\* child as "after" layer (none when G is empty), and the copies become the
\* last children of G, in source order; no other children list changes.
C6_InsertBeforeGroupGoesInside ==
  \A i \in DOMAIN merged :
    LET m == merged[i]
        G == m.ref
    IN (m_insert = "Before" /\ isGroup[G])
         => /\ m.anchor.group = G
            /\ m.anchor.before = Null
            /\ m.anchor.after = IF m.layersBefore[G] = <<>> THEN Null
                                ELSE Last(m.layersBefore[G])
            /\ m.layersAfter[G] = m.layersBefore[G] \o m.copies
            /\ \A h \in Ids \ {G} : m.layersAfter[h] = m.layersBefore[h]

\* two layers dropped before an empty group end up as its children
C6_Witness ==
  /\ pc = "executed" /\ ~Redone
  /\ Len(merged) = 1 /\ m_insert = "Before"
  /\ isGroup[merged[1].ref] /\ merged[1].ref # Root
  /\ merged[1].layersBefore[merged[1].ref] = <<>>
  /\ Len(merged[1].copies) = 2
  /\ layers[merged[1].ref] = merged[1].copies
  /\ layers[Root] = pre.layers[Root]

\* the loader calls that ended in one of `kinds'
CallsOf(kinds) == {i \in DOMAIN loaderCalls : loaderCalls[i].kind \in kinds}
MergedPaths == {merged[i].path : i \in DOMAIN merged}
CopiesOf(path) ==
  UNION {Range(merged[i].copies) : i \in {j \in DOMAIN merged : merged[j].path = path}}

C2_RedoReproducesExecute ==
  (pc = "executed" /\ Redone)
    => /\ Range(m_droppedLayers) \subseteq Attached
       /\ Restrict(allLayers(layers, isGroup), Range(post.all))
            = Restrict(post.all, Range(allLayers(layers, isGroup)))

\* C8: when the loader returns no document for the second of three pending
\* paths, execute ends there without a fault, with the first path's layers
\* merged and no third loader call.
C8_CancelStopsCleanly ==
  (/\ Len(pre.paths) = 3 /\ Len(loaderCalls) >= 2
   /\ loaderCalls[1].hasDoc /\ loaderCalls[1].used = {pre.paths[1]}
   /\ loaderCalls[2].kind = "cancel")
    => /\ pc # "fault"
       /\ Len(loaderCalls) = 2
       /\ MergedPaths = {pre.paths[1]}
       /\ CopiesOf(pre.paths[1]) = Range(m_droppedLayers)

\* C9: whatever the last operation (execute, undo or redo) sent to the
\* observers, it sent it only if the command holds at least one layer it
\* inserted, detached or attached again.
C9_NotifiesOnlyWhenLayerAffected ==
  notified.layer # Null => m_droppedLayers # <<>>

\* C10: an undo or redo that changes a children list raises the version of
\* that group and of the sprite; an execute that changed the tree has raised
\* them when it returns; no step lowers a version counter.
C10_VersionsReflectChange ==
  [][/\ \A l \in Ids : version'[l] >= version[l]
     /\ spriteVersion' >= spriteVersion
     /\ docVersion' >= docVersion
     /\ ((pc = "executed" /\ pc' = "undone") \/ (pc = "undone" /\ pc' = "executed"))
          => \A g \in Ids :
               layers'[g] # layers[g]
                 => version'[g] > version[g] /\ spriteVersion' > spriteVersion
     /\ (pc = "loop" /\ pc' = "executed")
          => \A g \in Ids :
               layers'[g] # pre.layers[g]
                 => version'[g] > pre.version[g]
                    /\ spriteVersion' > pre.spriteVersion]_vars

\* all copies made by the sources merged so far, in the order they were made
RECURSIVE CopiesInOrder(_)
CopiesInOrder(ms) ==
  IF ms = <<>> THEN <<>> ELSE ms[1].copies \o CopiesInOrder(Tail(ms))

\* C11: while execute runs and when it has returned, m_droppedLayers holds
\* exactly the layers attached since execute began, each once, in the order
\* they were inserted; an undo detaches exactly the recorded layers and a
\* redo attaches exactly the recorded layers; the parent of every other
\* layer and the order of the other layers in every children list are as
\* before the undo or redo.
C11_RecordedLayersAreTheOnesMoved ==
  [][/\ (pc' \in {"loop", "executed"} /\ others' = 0 /\ notified'.op # "redo")
          => /\ m_droppedLayers' = CopiesInOrder(merged')
             /\ \A i, j \in DOMAIN m_droppedLayers' :
                  m_droppedLayers'[i] = m_droppedLayers'[j] => i = j
             /\ Range(m_droppedLayers')
                  = {l \in Ids : parent'[l] # Null /\ pre'.parent[l] = Null}
     /\ ((pc = "executed" /\ pc' = "undone") \/ (pc = "undone" /\ pc' = "executed"))
          => LET D == Range(m_droppedLayers) IN
             /\ m_droppedLayers' = m_droppedLayers
             /\ \A l \in Ids \ D : parent'[l] = parent[l]
             /\ \A g \in Ids : Restrict(layers'[g], Ids \ D) = Restrict(layers[g], Ids \ D)
             /\ pc' = "undone"
                  => /\ D \subseteq Attached
                     /\ \A l \in D : parent'[l] = Null
                     /\ \A g \in Ids : Range(layers'[g]) \cap D = {}
             /\ pc' = "executed"
                  => /\ D \cap Attached = {}
                     /\ \A l \in D : parent'[l] # Null /\ l \in Range(layers'[parent'[l]])
    ]_vars

\* three recorded layers of two sources, detached by undo and attached again
\* by redo after another command changed the sprite
C11_Witness ==
  /\ pc = "executed" /\ Redone /\ others = 1
  /\ Len(merged) = 2 /\ Len(m_droppedLayers) = 3
  /\ m_droppedLayers = CopiesInOrder(merged)
  /\ Range(m_droppedLayers) \subseteq Attached

\* the places (group, position) at which a layer is a child
Places(l) ==
  UNION {{<<g, i>> : i \in {j \in DOMAIN layers[g] : layers[g][j] = l}} : g \in Ids}

\* C12: a layer is a child at one place at most, and that place is in the
\* group its parent pointer names; after execute and after redo every
\* recorded layer is a child of exactly one group, after undo of none.
C12_OneOwner ==
  /\ \A l \in Ids :
       /\ Cardinality(Places(l)) <= 1
       /\ \A gi \in Places(l) : parent[l] = gi[1]
       /\ parent[l] # Null => Places(l) # {}
  /\ pc = "executed"
       => \A l \in Range(m_droppedLayers) : Cardinality(Places(l)) = 1
  /\ pc = "undone"
       => \A l \in Range(m_droppedLayers) : Places(l) = {} /\ parent[l] = Null

\* two layers that execute put into the group 2, detached by undo
C12_Witness ==
  /\ pc = "undone" /\ others = 0 /\ m_previousTotalFrames = post.totalFrames
  /\ Len(m_droppedLayers) = 2
  /\ \A l \in Range(m_droppedLayers) :
       post.parent[l] = 2 /\ Places(l) = {} /\ parent[l] = Null
  /\ isGroup[2] /\ Places(2) = {<<Root, 2>>}

\* C13: for a command built with an index that addresses no layer (negative,
\* or past the end of the flattened layer list), whenever the fault of the
\* index has been raised the destination has the layer tree, the frame count
\* and the version counters it had before execute.
C13_BadIndexFailsBeforeMutation ==
  (/\ m_layerIndex \notin 0..(Len(pre.all) - 1)
   /\ pc = "fault" /\ CallsOf({"cancel"}) = {})
    => /\ layers = pre.layers
       /\ parent = pre.parent
       /\ totalFrames = pre.totalFrames
       /\ version = pre.version
       /\ spriteVersion = pre.spriteVersion
       /\ docVersion = pre.docVersion

\* C14: when execute has returned, by the end of the list or by a
\* cancellation, after inserting at least one layer, the inserted layers
\* are attached, the sprite's and the document's version are one above
\* their value before execute, and the observers were sent the last
\* inserted layer.
C14_LoopEndBumpsAndNotifies ==
  (pc = "executed" /\ notified.op = "execute" /\ m_droppedLayers # <<>>)
    => /\ Range(m_droppedLayers) \subseteq Attached
       /\ spriteVersion = pre.spriteVersion + 1
       /\ docVersion = pre.docVersion + 1
       /\ notified.layer = Last(m_droppedLayers)

Reverse(q) == [i \in 1..Len(q) |-> q[Len(q) - i + 1]]
\* the layers the last undo removed, in the order it removed them
DetachedLayers == [i \in DOMAIN detached |-> detached[i].layer]

\* C15 as stated: undo removes the recorded layers from the last inserted to
\* the first inserted, each from the group that holds it, and leaves none of
\* them attached.
C15_UndoDetachesInReverseOrder ==
  pc = "undone"
    => /\ DetachedLayers = Reverse(m_droppedLayers)
       /\ \A l \in Range(m_droppedLayers) : Places(l) = {} /\ parent[l] = Null

\* C15 amended: undo removes the recorded layers from the first inserted to
\* the last inserted, each from the group that holds it at that moment,
\* wherever it stands among that group's children, and leaves none of them
\* attached.
C15_UndoDetachesInInsertionOrder ==
  pc = "undone"
    => /\ DetachedLayers = m_droppedLayers
       /\ \A l \in Range(m_droppedLayers) : Places(l) = {} /\ parent[l] = Null

\* an undo that found the first of two recorded layers at another position
\* than the one execute gave it (another command changed the sprite between
\* the first undo and the redo)
C15_Witness ==
  /\ pc = "undone" /\ others = 1
  /\ Len(m_droppedLayers) = 2 /\ DetachedLayers = m_droppedLayers
  /\ detached[1].group = post.parent[detached[1].layer]
  /\ detached[1].at # IndexOf(post.layers[detached[1].group], detached[1].layer)
  /\ \A l \in Range(m_droppedLayers) : Places(l) = {}

\* C16: the layer an undo sends to the observers is the sibling that stood
\* right before the first recorded layer in the tree the undo found, or the
\* sprite's first layer when there is no such sibling (or no recorded
\* layer); it is attached after the undo and is not a recorded layer.
C16_UndoFocusPrecedesFirstDetached ==
  [][(pc = "executed" /\ pc' = "undone")
       => LET prev == IF m_droppedLayers = <<>> THEN Null
                      ELSE getPrevious(Tree(layers, parent), m_droppedLayers[1])
          IN /\ notified'.layer = IF prev # Null THEN prev
                                    ELSE firstLayer(layers', isGroup)
             /\ notified'.layer \notin Range(m_droppedLayers)
             /\ parent'[notified'.layer] # Null]_vars

\* the paths consumed by the loader calls before call number i
UsedBefore(calls, i) == UNION {calls[j].used : j \in 1..(i - 1)}

\* C17: with a loader that consumes the path it is called for and possibly
\* other pending paths: every call is made for the first pending path; when
\* the call did not cancel, the pending list afterwards is the list before
\* without the consumed paths, and shorter; no path is passed to the loader
\* twice or after an earlier call consumed it; calls made plus paths pending
\* never exceed the paths execute started with, and the loop can always take
\* its next step, so it ends after at most that many calls.
C17_LoadLoopConsumesAndEnds ==
  [][/\ Len(loaderCalls') = Len(loaderCalls) + 1
          => LET c == Last(loaderCalls') IN
             /\ pc = "loop" /\ m_paths # <<>>
             /\ c.path = Head(m_paths)
             /\ c.kind # "cancel"
                  => /\ c.used # {} /\ c.used \subseteq Range(m_paths)
                     /\ m_paths' = SelectSeq(m_paths, LAMBDA x : x \notin c.used)
                     /\ Len(m_paths') < Len(m_paths)
             /\ c.kind = "cancel" => pc' # "loop"
             /\ \A j \in DOMAIN loaderCalls : loaderCalls[j].path # c.path
             /\ c.path \notin UsedBefore(loaderCalls', Len(loaderCalls'))
     /\ pc' = "loop"
          => /\ Len(loaderCalls') + Len(m_paths') <= Len(pre'.paths)
             /\ Range(m_paths') \cap UsedBefore(loaderCalls', Len(loaderCalls') + 1) = {}
     /\ pc = "loop"
          => ENABLED (onExecuteCancelled \/ onExecuteNoDocument \/ onExecuteEnd)
    ]_vars

\* three paths; the load of the first consumes the third as well, the second
\* is loaded next and the loop ends after two calls
C17_Witness ==
  /\ pc = "executed" /\ notified.op = "execute"
  /\ pre.paths = <<1, 2, 3>> /\ m_paths = <<>>
  /\ Len(loaderCalls) = 2
  /\ loaderCalls[1].path = 1 /\ loaderCalls[1].used = {1, 3}
  /\ loaderCalls[2].path = 2 /\ loaderCalls[2].used = {2}
  /\ Len(merged) = 2

\* C18: mode Before with the index at a non-group layer R, for every source
\* merged: the anchor is "before R" in the group that holds R, and the
\* copies become children of that group, in source order, right before R
\* and after what preceded R; no other children list changes.
C18_InsertBeforeLayer ==
  \A i \in DOMAIN merged :
    LET m == merged[i]
        R == m.ref
    IN (m_insert = "Before" /\ ~isGroup[R])
         => LET g == CHOOSE h \in Ids : R \in Range(m.layersBefore[h])
                b == m.layersBefore[g]
                p == IndexOf(b, R)
            IN /\ m.anchor.before = R /\ m.anchor.after = Null
               /\ m.anchor.group = g
               /\ m.layersAfter[g] = SubSeq(b, 1, p - 1) \o m.copies
                                        \o SubSeq(b, p, Len(b))
               /\ \A h \in Ids \ {g} : m.layersAfter[h] = m.layersBefore[h]

\* three flat layers, Before at index 1, a source of two layers
C18_Witness ==
  /\ pc = "executed" /\ ~Redone
  /\ Len(merged) = 1 /\ m_insert = "Before" /\ m_layerIndex = 1
  /\ pre.layers[Root] = <<1, 2, 3>> /\ ~isGroup[2] /\ merged[1].ref = 2
  /\ Len(merged[1].copies) = 2
  /\ layers[Root] = <<1>> \o merged[1].copies \o <<2, 3>>

\* C19: for an execute that merged one source document, with no other
\* command run: after every redo the children lists and parents are those
\* execute left, after every undo those execute found; a redo makes no new
\* layer and no loader call and leaves the recorded list as it is, its
\* layers attached again.
C19_RedoRestoresExecuteTree ==
  [][(Len(merged') = 1 /\ others' = 0)
       => /\ pc' = "executed"
               => layers' = post'.layers /\ parent' = post'.parent
          /\ pc' = "undone"
               => layers' = pre'.layers /\ parent' = pre'.parent
          /\ (pc = "undone" /\ pc' = "executed")
               => /\ nextId' = nextId
                  /\ loaderCalls' = loaderCalls
                  /\ m_droppedLayers' = m_droppedLayers
                  /\ \A l \in Range(m_droppedLayers) :
                       parent[l] = Null /\ parent'[l] = post.parent[l]
    ]_vars

\* the redo of a command that merged one source of two layers
C19_Witness ==
  /\ pc = "executed" /\ Redone /\ others = 0
  /\ Len(merged) = 1 /\ m_droppedLayers = merged[1].copies
  /\ Len(m_droppedLayers) = 2 /\ DetachedLayers = m_droppedLayers
  /\ layers = post.layers /\ parent = post.parent
  /\ layers # pre.layers

\* C20: at every step that resolves the insertion anchor (an iteration of
\* execute that got a source document, and redo), m_layerIndex addresses a
\* layer of the flattened layer list of the tree the step finds, and the
\* group resolved from that layer is not null.
C20_AnchorIndexInBounds ==
  [][(\/ (pc = "loop" /\ Len(loaderCalls') = Len(loaderCalls) + 1
          /\ Last(loaderCalls').hasDoc)
      \/ (pc = "undone" /\ pc' # "undone"))
       => LET all == allLayers(layers, isGroup) IN
          /\ m_layerIndex \in 0..(Len(all) - 1)
          /\ setupInsertionLayers(Tree(layers, parent), isGroup,
                                  all[m_layerIndex + 1]).group # Null]_vars

====
